---- MODULE Spec2Model ----
\* Model of app.py: the document pipeline that loads the records of a data
\* directory, groups them by file name, asks three questions of a per-file
\* index, and exports the extracted rows to a spreadsheet and a table.
EXTENDS Integers, Sequences, FiniteSets, TLC

\* ---------------------------------------------------------------- bounds
\* Longest sequence of loaded records built from the curated file names.
MaxDocs == 3
\* Longest file name drawn from all strings over NameChars.
MaxNameLen == 2

\* ---------------------------------------------------------------- values
\* A string is a sequence of one-character strings.
NameChars == {"a", "A", " ", "/", "%"}
Whitespace == {" ", "\n"}

None == "None"
NoIndex == [id |-> 0, docs |-> <<>>]
NoCall == [op |-> "none", g |-> 0, q |-> None, index |-> NoIndex]
NoFile == [exists |-> FALSE, rows |-> <<>>]
NoRun == [pc |-> None, extracted_data |-> <<>>, excel |-> None, excel_file |-> NoFile, html |-> None]
\* Stands in the curated names for metadata without a 'file_name' key.
NoFileName == <<>>
UnknownFile == <<"U", "n", "k", "n", "o", "w", "n", " ", "F", "i", "l", "e">>

\* File names that make several records share or not share a group.
CuratedNames == {<<"a">>, <<"A">>, <<"d", "/", "a">>}

RECURSIVE StringsUpTo(_)
StringsUpTo(n) ==
    IF n = 0 THEN {<<>>}
    ELSE LET shorter == StringsUpTo(n - 1)
         IN shorter \cup {Append(s, c) : s \in {t \in shorter : Len(t) = n - 1}, c \in NameChars}

\* metadata is a dictionary, held as a set of <<key, value>> pairs.
MetadataOf(name) == IF name = NoFileName THEN {} ELSE {<<"file_name", name>>}

\* The loader gives each record its own id; here its position in the load.
DocsOf(names) == [j \in 1..Len(names) |-> [metadata |-> MetadataOf(names[j]), doc_id |-> j]]

NameSeqs == UNION {[1..n -> CuratedNames] : n \in 0..MaxDocs}
\* Loads that mix records without a file name with named ones.
MixedLoads ==
    {<<NoFileName, <<"a">>, NoFileName>>, <<<<"A">>, NoFileName, <<"d", "/", "a">>>>}

LoaderOutputs ==
    {DocsOf(ns) : ns \in NameSeqs \cup MixedLoads}
        \cup {DocsOf(<<s>>) : s \in StringsUpTo(MaxNameLen)}

\* The three fixed questions, in the order the code asks them.
QCreated == "creation date"
QPosted == "posted date"
QSummary == "summary"
Questions == <<QCreated, QPosted, QSummary>>

\* A value carries its Python type: a query returns a Response object wrapping
\* its text, str() of it is a str.
Response(text) == [type |-> "Response", text |-> text]
StrValue(text) == [type |-> "str", text |-> text]
Responses == {Response(<<" ", "1", "\n">>), Response(<<"-", "\n", "-">>)}
NoResponse == Response(<<>>)
\* An oracle call either returns a value or raises.
Returned(r) == [ok |-> TRUE, value |-> r]
Raised == [ok |-> FALSE, value |-> NoResponse]
QueryOutcomes == {Returned(r) : r \in Responses} \cup {Raised}
BuildOutcomes == {Returned(NoResponse), Raised}

VARIABLES
    data_dir,          \* the data directory: "missing", "empty" or "files"
    loader_output,     \* what the reader yields for the directory
    oracle,            \* the answers the oracle has given so far
    pc,                \* position of the run
    rerun,             \* TRUE in the second run over the same directory
    documents,         \* app.py:164
    i,                 \* position of the grouping loop in documents
    docs_by_filename,  \* app.py:52, an insertion-ordered mapping
    g,                 \* position of the extraction loop in docs_by_filename
    index,             \* app.py:67
    next_index_id,     \* identity of the next index object built
    created_date,      \* app.py:78
    posted_date_response,   \* app.py:81
    summary_response,  \* app.py:87
    extracted_data,    \* app.py:49
    excel,             \* what export_to_excel did in this run
    excel_file,        \* rows of the file on disk
    html,              \* what export_to_html rendered in this run
    notices,           \* notices printed in this run
    calls,             \* external calls and loop steps of this run, in order
    failed,            \* the call that raised in this run
    prev               \* outcome of the first run, kept for comparison

vars == <<data_dir, loader_output, oracle, pc, rerun, documents, i,
          docs_by_filename, g, index, next_index_id, created_date,
          posted_date_response, summary_response, extracted_data, excel,
          excel_file, html, notices, calls, failed, prev>>

\* ---------------------------------------------------------------- helpers
RECURSIVE LastSlash(_)
LastSlash(p) ==
    IF p = <<>> THEN 0
    ELSE IF p[Len(p)] = "/" THEN Len(p)
    ELSE LastSlash(SubSeq(p, 1, Len(p) - 1))

\* os.path.basename
Basename(p) == SubSeq(p, LastSlash(p) + 1, Len(p))

\* dict.get(key, default)
Get(md, key, default) ==
    IF \E p \in md : p[1] = key THEN (CHOOSE p \in md : p[1] = key)[2] ELSE default

\* doc.metadata.get('file_name', 'Unknown File')
MetadataFileName(doc) == Get(doc.metadata, "file_name", UnknownFile)

\* Variant: the path prefix is kept.
FilenameWithPath(doc) == MetadataFileName(doc)

\* os.path.basename(doc.metadata.get('file_name', 'Unknown File'))
Filename(doc) == Basename(MetadataFileName(doc))

\* str(response)
Str(r) == StrValue(r.text)

RECURSIVE LStrip(_)
LStrip(s) ==
    IF s # <<>> /\ s[1] \in Whitespace THEN LStrip(Tail(s)) ELSE s

RECURSIVE RStrip(_)
RStrip(s) ==
    IF s # <<>> /\ s[Len(s)] \in Whitespace THEN RStrip(SubSeq(s, 1, Len(s) - 1)) ELSE s

\* str.strip()
Strip(s) == StrValue(RStrip(LStrip(s.text)))

\* Variant: only the first space is replaced, as replace(' ', '%20', 1) does.
RECURSIVE ReplaceFirstSpace(_)
ReplaceFirstSpace(s) ==
    IF s = <<>> THEN <<>>
    ELSE IF s[1] = " " THEN <<"%", "2", "0">> \o Tail(s)
    ELSE <<s[1]>> \o ReplaceFirstSpace(Tail(s))

\* filename.replace(' ', '%20')
RECURSIVE ReplaceSpaces(_)
ReplaceSpaces(s) ==
    IF s = <<>> THEN <<>>
    ELSE (IF s[1] = " " THEN <<"%", "2", "0">> ELSE <<s[1]>>) \o ReplaceSpaces(Tail(s))

HasKey(d, k) == \E j \in 1..Len(d) : d[j].filename = k

\* Variant: the membership test is missing, every record opens a new list.
AddToGroupAlwaysNew(d, k, doc) == Append(d, [filename |-> k, doc_list |-> <<doc>>])

\* docs_by_filename[filename].append(doc), creating the list first if needed
AddToGroup(d, k, doc) ==
    IF HasKey(d, k)
    THEN [j \in 1..Len(d) |->
            IF d[j].filename = k
            THEN [d[j] EXCEPT !.doc_list = Append(@, doc)]
            ELSE d[j]]
    ELSE Append(d, [filename |-> k, doc_list |-> <<doc>>])

\* The oracle answers a repeated question about the same contents the same way.
Answers(key, out) == key \in DOMAIN oracle => out = oracle[key]
Remember(key, out) == (key :> out) @@ oracle

EmptyMap == [k \in {} |-> None]

\* One entry of the run's record of calls: group or record position, question, index used.
Call(op, n, q, idx) == [op |-> op, g |-> n, q |-> q, index |-> idx]

\* ---------------------------------------------------------------- initial state
Init ==
    /\ data_dir \in {"missing", "empty", "files"}
    /\ loader_output \in (IF data_dir = "files" THEN LoaderOutputs ELSE {<<>>})
    /\ oracle = EmptyMap
    /\ pc = "main"
    /\ rerun = FALSE
    /\ documents = <<>>
    /\ i = 1
    /\ docs_by_filename = <<>>
    /\ g = 1
    /\ index = NoIndex
    /\ next_index_id = 1
    /\ created_date = StrValue(<<>>)
    /\ posted_date_response = NoResponse
    /\ summary_response = NoResponse
    /\ extracted_data = <<>>
    /\ excel = "none"
    /\ excel_file = NoFile
    /\ html = "none"
    /\ notices = {}
    /\ calls = <<>>
    /\ failed = NoCall
    /\ prev = NoRun

\* ---------------------------------------------------------------- actions
extractVars == <<documents, i, docs_by_filename, g, index, next_index_id,
                 created_date, posted_date_response, summary_response,
                 extracted_data>>
queryVars == <<created_date, posted_date_response, summary_response>>
exportVars == <<excel, excel_file, html>>
envVars == <<data_dir, loader_output, rerun, prev>>

\* app.py:159-161
CheckDirectoryBad ==
    /\ pc = "main"
    /\ data_dir \in {"missing", "empty"}
    /\ notices' = notices \cup {"empty or missing"}
    /\ pc' = "done"
    /\ UNCHANGED <<envVars, oracle, extractVars, exportVars, calls, failed>>

\* app.py:159, 164 and load_documents_from_directory
LoadDocuments ==
    /\ pc = "main"
    /\ data_dir = "files"
    /\ documents' = loader_output
    /\ pc' = "extract"
    /\ calls' = Append(calls, Call("load", 0, None, NoIndex))
    /\ UNCHANGED <<envVars, oracle, i, docs_by_filename, g, index, next_index_id,
                   queryVars, extracted_data, exportVars, notices, failed>>

\* Variant: the rows are not reset, as with a module-level list.
ExtractStartKeepsRows ==
    /\ pc = "extract"
    /\ docs_by_filename' = <<>>
    /\ i' = 1
    /\ pc' = "group"
    /\ UNCHANGED <<envVars, oracle, documents, g, index, next_index_id, queryVars,
                   extracted_data, exportVars, notices, calls, failed>>

\* app.py:49-52
ExtractStart ==
    /\ pc = "extract"
    /\ extracted_data' = <<>>
    /\ docs_by_filename' = <<>>
    /\ i' = 1
    /\ pc' = "group"
    /\ UNCHANGED <<envVars, oracle, documents, g, index, next_index_id, queryVars,
                   exportVars, notices, calls, failed>>

\* app.py:53-57, one iteration
GroupStep ==
    /\ pc = "group"
    /\ i <= Len(documents)
    /\ docs_by_filename' = AddToGroup(docs_by_filename, Filename(documents[i]), documents[i])
    /\ i' = i + 1
    /\ calls' = Append(calls, Call("group", i, None, NoIndex))
    /\ UNCHANGED <<envVars, oracle, pc, documents, g, index, next_index_id, queryVars,
                   extracted_data, exportVars, notices, failed>>

\* app.py:53 exhausted, 59, 61
GroupDone ==
    /\ pc = "group"
    /\ i > Len(documents)
    /\ g' = 1
    /\ pc' = "foreach"
    /\ UNCHANGED <<envVars, oracle, documents, i, docs_by_filename, index, next_index_id,
                   queryVars, extracted_data, exportVars, notices, calls, failed>>

CurrentGroup == docs_by_filename[g]

\* Variant: one index over all the loaded documents.
BuildIndexOverAll(doc_list, out) ==
    /\ Answers(<<documents, "build">>, out)
    /\ oracle' = Remember(<<documents, "build">>, out)
    /\ next_index_id' = next_index_id + 1
    /\ LET built == [id |-> next_index_id, docs |-> documents]
       IN IF out.ok
          THEN /\ index' = built
               /\ calls' = Append(calls, Call("build", g, None, built))
               /\ pc' = "q_created"
               /\ UNCHANGED failed
          ELSE /\ calls' = Append(calls, Call("build", g, None, built))
               /\ failed' = Call("build", g, None, built)
               /\ pc' = "crashed"
               /\ UNCHANGED index

\* VectorStoreIndex.from_documents(doc_list), app.py:67; out is what the call does
BuildIndexOf(doc_list, out) ==
    /\ Answers(<<doc_list, "build">>, out)
    /\ oracle' = Remember(<<doc_list, "build">>, out)
    /\ next_index_id' = next_index_id + 1
    /\ LET built == [id |-> next_index_id, docs |-> doc_list]
       IN IF out.ok
          THEN /\ index' = built
               /\ calls' = Append(calls, Call("build", g, None, built))
               /\ pc' = "q_created"
               /\ UNCHANGED failed
          ELSE /\ calls' = Append(calls, Call("build", g, None, built))
               /\ failed' = Call("build", g, None, built)
               /\ pc' = "crashed"
               /\ UNCHANGED index

\* app.py:61-70, the next group's index
BuildIndex ==
    /\ pc = "foreach"
    /\ g <= Len(docs_by_filename)
    /\ \E out \in BuildOutcomes : BuildIndexOf(CurrentGroup.doc_list, out)
    /\ UNCHANGED <<envVars, documents, i, docs_by_filename, g, queryVars,
                   extracted_data, exportVars, notices>>

\* Variant: a query that raises is issued again.
QueryRetrying(q, out) ==
    /\ Answers(<<index.docs, q>>, out)
    /\ oracle' = Remember(<<index.docs, q>>, out)
    /\ calls' = Append(calls, Call("query", g, q, index))
    /\ IF out.ok
       THEN UNCHANGED failed
       ELSE /\ failed' = Call("query", g, q, index)
            /\ pc' = pc
            /\ UNCHANGED queryVars

\* query_engine.query(question) on the current index; out is what the call does
Query(q, out) ==
    /\ Answers(<<index.docs, q>>, out)
    /\ oracle' = Remember(<<index.docs, q>>, out)
    /\ calls' = Append(calls, Call("query", g, q, index))
    /\ IF out.ok
       THEN UNCHANGED failed
       ELSE /\ failed' = Call("query", g, q, index)
            /\ pc' = "crashed"
            /\ UNCHANGED queryVars

\* app.py:74-78
QueryCreated ==
    /\ pc = "q_created"
    /\ \E out \in QueryOutcomes :
          /\ Query(QCreated, out)
          /\ out.ok => /\ created_date' = Strip(Str(out.value))
                       /\ pc' = "q_posted"
                       /\ UNCHANGED <<posted_date_response, summary_response>>
    /\ UNCHANGED <<envVars, documents, i, docs_by_filename, g, index, next_index_id,
                   extracted_data, exportVars, notices>>

\* app.py:81-84
QueryPosted ==
    /\ pc = "q_posted"
    /\ \E out \in QueryOutcomes :
          /\ Query(QPosted, out)
          /\ out.ok => /\ posted_date_response' = out.value
                       /\ pc' = "q_summary"
                       /\ UNCHANGED <<created_date, summary_response>>
    /\ UNCHANGED <<envVars, documents, i, docs_by_filename, g, index, next_index_id,
                   extracted_data, exportVars, notices>>

\* app.py:87-90
QuerySummary ==
    /\ pc = "q_summary"
    /\ \E out \in QueryOutcomes :
          /\ Query(QSummary, out)
          /\ out.ok => /\ summary_response' = out.value
                       /\ pc' = "append"
                       /\ UNCHANGED <<created_date, posted_date_response>>
    /\ UNCHANGED <<envVars, documents, i, docs_by_filename, g, index, next_index_id,
                   extracted_data, exportVars, notices>>

\* app.py:92-106; the row keeps the dictionary's four keys
ExtractionRecord(filename, created, posted_response, summary) ==
    [SourceDocument |-> ReplaceSpaces(filename),
     CreatedDate |-> created,
     PostedDate |-> Strip(Str(posted_response)),
     Summary |-> summary]

\* app.py:92-106, then back to the loop head at 61
AppendRecord ==
    /\ pc = "append"
    /\ extracted_data' = Append(extracted_data,
          ExtractionRecord(CurrentGroup.filename, created_date,
                           posted_date_response, summary_response))
    /\ calls' = Append(calls, Call("append", g, None, index))
    /\ g' = g + 1
    /\ pc' = "foreach"
    /\ UNCHANGED <<envVars, oracle, documents, i, docs_by_filename, index, next_index_id,
                   queryVars, exportVars, notices, failed>>

\* Variant: the return statement sits inside the loop body.
ReturnInsideLoop ==
    /\ pc = "foreach"
    /\ g > 1 \/ g > Len(docs_by_filename)
    /\ pc' = "excel"
    /\ UNCHANGED <<envVars, oracle, extractVars, exportVars, notices, calls, failed>>

\* app.py:61 exhausted, 108, 167
ReturnExtracted ==
    /\ pc = "foreach"
    /\ g > Len(docs_by_filename)
    /\ pc' = "excel"
    /\ UNCHANGED <<envVars, oracle, extractVars, exportVars, notices, calls, failed>>

\* Variant: the emptiness test is missing, an empty sheet is written.
ExportToExcelEmptyWrites ==
    /\ pc = "excel"
    /\ extracted_data = <<>>
    /\ excel_file' = [exists |-> TRUE, rows |-> extracted_data]
    /\ excel' = "written"
    /\ pc' = "html"
    /\ calls' = Append(calls, Call("export_to_excel", 0, None, NoIndex))
    /\ UNCHANGED <<envVars, oracle, extractVars, html, notices, failed>>

\* export_to_excel with nothing to export, app.py:116-118
ExportToExcelEmpty ==
    /\ pc = "excel"
    /\ extracted_data = <<>>
    /\ notices' = notices \cup {"no data"}
    /\ excel' = "skipped"
    /\ pc' = "html"
    /\ calls' = Append(calls, Call("export_to_excel", 0, None, NoIndex))
    /\ UNCHANGED <<envVars, oracle, extractVars, excel_file, html, failed>>

\* export_to_excel, app.py:120-125
ExportToExcel ==
    /\ pc = "excel"
    /\ extracted_data # <<>>
    /\ excel_file' = [exists |-> TRUE, rows |-> extracted_data]
    /\ excel' = "written"
    /\ pc' = "html"
    /\ calls' = Append(calls, Call("export_to_excel", 0, None, NoIndex))
    /\ UNCHANGED <<envVars, oracle, extractVars, html, notices, failed>>

\* df.to_excel raises (the file cannot be written), app.py:124; nothing catches it
ExportToExcelFails ==
    /\ pc = "excel"
    /\ extracted_data # <<>>
    /\ excel' = "failed"
    /\ failed' = Call("export_to_excel", 0, None, NoIndex)
    /\ pc' = "crashed"
    /\ calls' = Append(calls, Call("export_to_excel", 0, None, NoIndex))
    /\ UNCHANGED <<envVars, oracle, extractVars, excel_file, html, notices>>

\* export_to_html, app.py:128-153; it reads the global extracted_data of 167
ExportToHtml ==
    /\ pc = "html"
    /\ html' = IF extracted_data # <<>> THEN "table" ELSE "warning"
    /\ pc' = "done"
    /\ calls' = Append(calls, Call("export_to_html", 0, None, NoIndex))
    /\ UNCHANGED <<envVars, oracle, extractVars, excel, excel_file, notices, failed>>

\* The script is run again over the unchanged directory with the same oracle.
RunAgain ==
    /\ pc \in {"done", "crashed"}
    /\ ~rerun
    /\ rerun' = TRUE
    /\ prev' = [pc |-> pc, extracted_data |-> extracted_data, excel |-> excel,
                excel_file |-> excel_file, html |-> html]
    /\ pc' = "main"
    /\ excel' = "none"
    /\ html' = "none"
    /\ notices' = {}
    /\ calls' = <<>>
    /\ failed' = NoCall
    /\ UNCHANGED <<data_dir, loader_output, oracle, extractVars, excel_file>>

Next ==
    \/ CheckDirectoryBad
    \/ LoadDocuments
    \/ ExtractStart
    \/ GroupStep
    \/ GroupDone
    \/ BuildIndex
    \/ QueryCreated
    \/ QueryPosted
    \/ QuerySummary
    \/ AppendRecord
    \/ ReturnExtracted
    \/ ExportToExcelEmpty
    \/ ExportToExcel
    \/ ExportToExcelFails
    \/ ExportToHtml
    \/ RunAgain

Spec == Init /\ [][Next]_vars

\* ---------------------------------------------------------------- properties
\* The run has gone through extract_content_from_documents's first lines, so
\* extracted_data and docs_by_filename are those of this run.
Extracting == pc \notin {"main", "extract"}
\* The grouping loop of this run has finished.
Grouped == pc \notin {"main", "extract", "group"}
\* extract_content_from_documents has returned in this run.
Extracted ==
    \/ pc \in {"excel", "html"}
    \/ pc = "done" /\ data_dir = "files"
    \/ pc = "crashed" /\ failed.op = "export_to_excel"

DistinctNames == {Filename(documents[j]) : j \in 1..Len(documents)}
FirstPos(n) ==
    CHOOSE j \in 1..Len(documents) :
        /\ Filename(documents[j]) = n
        /\ \A h \in 1..(j - 1) : Filename(documents[h]) # n
\* The distinct basenames in the order of their first occurrence.
FirstSeen ==
    [k \in 1..Cardinality(DistinctNames) |->
        CHOOSE n \in DistinctNames :
            Cardinality({m \in DistinctNames : FirstPos(m) < FirstPos(n)}) = k - 1]

\* C1: when extraction returns (no oracle call having raised), there is exactly
\* one row per distinct basename among the loaded records, the rows are in the
\* order in which the basenames first occur, and a written sheet has that many rows.
C1_OneRowPerBasenameInFirstSeenOrder ==
    Extracted =>
        /\ Len(extracted_data) = Cardinality(DistinctNames)
        /\ \A k \in 1..Len(extracted_data) :
              extracted_data[k].SourceDocument = ReplaceSpaces(FirstSeen[k])
        /\ excel = "written" => Len(excel_file.rows) = Cardinality(DistinctNames)

C1_Witness ==
    /\ pc = "done"
    /\ Len(documents) = 3
    /\ Filename(documents[1]) = Filename(documents[3])
    /\ Filename(documents[1]) # Filename(documents[2])
    /\ Len(extracted_data) = 2
    /\ excel = "written"

\* b is p with everything up to its last "/" removed.
IsBasenameOf(b, p) ==
    \E n \in 0..Len(p) :
        /\ b = SubSeq(p, n + 1, Len(p))
        /\ n = 0 \/ p[n] = "/"
        /\ \A j \in 1..Len(b) : b[j] # "/"

\* k is the key the claim gives the record: its basename, compared character
\* by character, or "Unknown File" without a file_name.
KeyedBy(k, doc) ==
    IF \E p \in doc.metadata : p[1] = "file_name"
    THEN \E p \in doc.metadata : p[1] = "file_name" /\ IsBasenameOf(k, p[2])
    ELSE k = UnknownFile

Places(doc) ==
    {<<e, n>> \in (1..Len(docs_by_filename)) \X (1..Len(documents)) :
        /\ n <= Len(docs_by_filename[e].doc_list)
        /\ docs_by_filename[e].doc_list[n] = doc}

\* C2: after the grouping loop every loaded record sits at exactly one place of
\* exactly one group, the group keyed by its case-sensitive basename (or by
\* "Unknown File" without a file_name); the groups hold nothing else, their keys
\* are distinct, and each group's records are in load order.
C2_EveryRecordInExactlyItsGroup ==
    Grouped =>
        /\ \A j \in 1..Len(documents) :
              /\ Cardinality(Places(documents[j])) = 1
              /\ \A pl \in Places(documents[j]) :
                    KeyedBy(docs_by_filename[pl[1]].filename, documents[j])
        /\ \A e \in 1..Len(docs_by_filename) :
              LET dl == docs_by_filename[e].doc_list
              IN /\ dl # <<>>
                 /\ \A n \in 1..Len(dl) : \E j \in 1..Len(documents) : dl[n] = documents[j]
                 /\ \A n, m \in 1..Len(dl) : n < m => dl[n].doc_id < dl[m].doc_id
        /\ \A e, f \in 1..Len(docs_by_filename) :
              e # f => docs_by_filename[e].filename # docs_by_filename[f].filename

C2_Witness ==
    /\ pc = "foreach"
    /\ Len(documents) = 3
    /\ Len(docs_by_filename) = 3
    /\ docs_by_filename[1].filename = <<"A">>
    /\ docs_by_filename[2].filename = UnknownFile
    /\ docs_by_filename[3].filename = <<"a">>
    /\ MetadataFileName(documents[3]) = <<"d", "/", "a">>

Spaces(s, n) == Cardinality({j \in 1..n : s[j] = " "})

\* out is s with each space turned into the three characters %20 and every
\* other character kept, in the same order.
IsSpaceEncoded(out, s) ==
    /\ Len(out) = Len(s) + 2 * Spaces(s, Len(s))
    /\ \A j \in 1..Len(s) :
          LET o == j + 2 * Spaces(s, j - 1)
          IN IF s[j] = " "
             THEN SubSeq(out, o, o + 2) = <<"%", "2", "0">>
             ELSE out[o] = s[j]

\* C3: the Source Document of every row is its group's filename with each
\* space replaced by %20 and every other character, '%' included, unchanged.
C3_SourceDocumentEncodesSpacesOnly ==
    Extracting =>
        \A k \in 1..Len(extracted_data) :
            IsSpaceEncoded(extracted_data[k].SourceDocument, docs_by_filename[k].filename)

C3_Witness ==
    /\ pc = "done"
    /\ Len(extracted_data) = 1
    /\ docs_by_filename[1].filename = <<"%", " ">>
    /\ extracted_data[1].SourceDocument = <<"%", "%", "2", "0">>

\* The loaded records whose basename is k, in load order.
GroupRecords(k) ==
    LET InGroup(d) == Filename(d) = k
    IN SelectSeq(documents, InGroup)

IsCall(n, op) == calls[n].op = op

\* C4: every query of a group is answered by the index built for that group,
\* whose contents are exactly the loaded records of that group; each build
\* makes a new index, and no two groups' queries use the same index.
C4_IndexHoldsExactlyItsGroup ==
    Grouped =>
        /\ \A n \in 1..Len(calls) :
              IsCall(n, "query") =>
                 /\ calls[n].index.docs = GroupRecords(docs_by_filename[calls[n].g].filename)
                 /\ \E b \in 1..(n - 1) :
                       /\ IsCall(b, "build")
                       /\ calls[b].g = calls[n].g
                       /\ calls[b].index = calls[n].index
        /\ \A a, b \in 1..Len(calls) :
              /\ (a # b /\ IsCall(a, "build") /\ IsCall(b, "build")) =>
                    /\ calls[a].index.id # calls[b].index.id
                    /\ calls[a].g # calls[b].g
              /\ (IsCall(a, "query") /\ IsCall(b, "query") /\ calls[a].g # calls[b].g) =>
                    calls[a].index.id # calls[b].index.id
        /\ pc \in {"q_created", "q_posted", "q_summary", "append"} =>
              /\ index.docs = GroupRecords(CurrentGroup.filename)
              /\ index.id = next_index_id - 1

C4_Witness ==
    /\ pc = "done"
    /\ Len(docs_by_filename) = 2
    /\ Len(docs_by_filename[1].doc_list) = 2
    /\ \E n \in 1..Len(calls) : IsCall(n, "query") /\ calls[n].g = 2 /\ calls[n].q = QSummary

\* What the oracle answered to question q about group k's records.
Answer(k, q) == oracle[<<docs_by_filename[k].doc_list, q>>].value

\* C5 as claimed: every row holds three strings, the two dates being the
\* trimmed string form of their responses and the summary the untrimmed string
\* form of its response.
C5_AllThreeFieldsAreStrings ==
    Extracting =>
        \A k \in 1..Len(extracted_data) :
            /\ extracted_data[k].CreatedDate = Strip(Str(Answer(k, QCreated)))
            /\ extracted_data[k].PostedDate = Strip(Str(Answer(k, QPosted)))
            /\ extracted_data[k].Summary = Str(Answer(k, QSummary))

\* What does hold of the three fields: the dates are trimmed strings, and the
\* summary is the response object, whose string form is the untrimmed text.
DatesTrimmedSummaryUncoerced ==
    Extracting =>
        \A k \in 1..Len(extracted_data) :
            /\ extracted_data[k].CreatedDate = Strip(Str(Answer(k, QCreated)))
            /\ extracted_data[k].PostedDate = Strip(Str(Answer(k, QPosted)))
            /\ extracted_data[k].Summary = Answer(k, QSummary)
            /\ extracted_data[k].CreatedDate.type = "str"
            /\ extracted_data[k].PostedDate.type = "str"
            /\ extracted_data[k].Summary.type = "Response"

\* C6: once building an index or a query has raised, the run is over: the
\* failing call is the last call and was made once, the failing group and the
\* groups after it have no row, no sheet is written and no table rendered.
C6_OracleErrorAbortsTheRun ==
    failed.op \in {"build", "query"} =>
        /\ pc = "crashed"
        /\ excel = "none"
        /\ html = "none"
        /\ excel_file = prev.excel_file
        /\ Len(extracted_data) = failed.g - 1
        /\ calls[Len(calls)] = failed
        /\ Cardinality({n \in 1..Len(calls) : calls[n] = failed}) = 1
        /\ \A n \in 1..Len(calls) : calls[n].g <= failed.g \/ IsCall(n, "group")

C6_Witness ==
    /\ pc = "crashed"
    /\ failed.op = "query"
    /\ failed.q = QPosted
    /\ failed.g = 2
    /\ Len(docs_by_filename) = 3
    /\ Len(extracted_data) = 1

\* C7: a sheet is written and a table rendered only with at least one row; a
\* missing or empty directory gives a run that loads nothing, calls nothing,
\* has no row, writes and renders nothing and ends with the notice; and
\* export_to_excel with no rows writes nothing and gives its notice.
C7_NothingExportedWithoutRows ==
    /\ (excel = "written" \/ html = "table") => extracted_data # <<>>
    /\ data_dir \in {"missing", "empty"} =>
          /\ documents = <<>>
          /\ calls = <<>>
          /\ oracle = EmptyMap
          /\ extracted_data = <<>>
          /\ excel = "none"
          /\ ~excel_file.exists
          /\ html = "none"
          /\ pc \in {"main", "done"}
          /\ pc = "done" => "empty or missing" \in notices
    /\ (pc \in {"html", "done"} /\ data_dir = "files" /\ extracted_data = <<>>) =>
          /\ excel = "skipped"
          /\ ~excel_file.exists
          /\ "no data" \in notices
    /\ excel_file.exists => excel_file.rows # <<>>

C7_Witness ==
    /\ pc = "done"
    /\ data_dir = "files"
    /\ documents = <<>>
    /\ excel = "skipped"
    /\ html = "warning"
    /\ "no data" \in notices

\* C8 as claimed: a run in which the spreadsheet write failed still renders the table.
C8_TableRenderedAfterFailedWrite ==
    (pc \in {"done", "crashed"} /\ excel = "failed") => html = "table"

\* C9: the second run over the same loaded records, with the oracle answering
\* as before, gets as far as the first and has the same rows in the same
\* order, and the same sheet when both write one.
C9_SecondRunGivesTheSameRows ==
    rerun =>
        /\ Extracted =>
              /\ prev.pc = "done" \/ prev.excel = "failed"
              /\ extracted_data = prev.extracted_data
        /\ (pc = "crashed" /\ failed.op # "export_to_excel") =>
              /\ prev.pc = "crashed"
              /\ prev.excel = "none"
              /\ extracted_data = prev.extracted_data
        /\ excel = "written" =>
              /\ excel_file.rows = prev.extracted_data
              /\ prev.excel = "written" => excel_file = prev.excel_file

C9_Witness ==
    /\ rerun
    /\ pc = "done"
    /\ Len(extracted_data) = 2
    /\ extracted_data[1].CreatedDate # extracted_data[2].CreatedDate
    /\ excel = "written"
    /\ prev.excel = "written"

PerGroup(k) ==
    << <<"build", k, None>>, <<"query", k, QCreated>>, <<"query", k, QPosted>>,
       <<"query", k, QSummary>>, <<"append", k, None>> >>

RECURSIVE PerGroups(_)
PerGroups(k) == IF k = 0 THEN <<>> ELSE PerGroups(k - 1) \o PerGroup(k)

\* The calls of a complete run over the directory's records, in order.
ExpectedCalls ==
    << <<"load", 0, None>> >>
        \o [j \in 1..Len(loader_output) |-> <<"group", j, None>>]
        \o PerGroups(Cardinality({Filename(loader_output[j]) : j \in 1..Len(loader_output)}))
        \o << <<"export_to_excel", 0, None>>, <<"export_to_html", 0, None>> >>

Shape(c) == <<c.op, c.g, c.q>>

\* C10: the calls of a run are, in order, a beginning of: the load, one
\* grouping step per record, then per group its build, its three queries
\* (creation date, posted date, summary) and its append, then the two exports;
\* and a run that ends normally over a directory with files has made them all.
C10_CallsAreSequentialAndOrdered ==
    /\ Len(calls) <= Len(ExpectedCalls)
    /\ \A n \in 1..Len(calls) : Shape(calls[n]) = ExpectedCalls[n]
    /\ (pc = "done" /\ data_dir = "files") => Len(calls) = Len(ExpectedCalls)

C10_Witness ==
    /\ pc = "done"
    /\ Len(docs_by_filename) = 2
    /\ Len(documents) = 3
    /\ Len(calls) = 16

====
